---- MODULE Spec2Model ----
(***************************************************************************)
(* Model of the in-memory indexing classes of the repository:              *)
(*   StudentIndexer  ("Python program/StudentRecordeIndexing.py")          *)
(*   TextIndex       ("Python program/Indexing.py")                        *)
(*                                                                         *)
(* Python values are modelled as tagged records (None, numbers, strings).  *)
(* A Python str is the sequence of its code points, so that ordering,      *)
(* case folding and containment are computed as Python computes them.      *)
(* A GPA is a number of hundredths (3.85 is 385).                          *)
(* A dict is the sequence of its (key, value) entries in insertion order.  *)
(***************************************************************************)
EXTENDS Integers, Sequences, FiniteSets, TLC

VARIABLES students, courses, enrollments,
          index_by_last_name, index_by_grade, index_by_gpa, index_by_email,
          index_by_department, course_enrollments,
          word_positions, word_counts, original_text, json_file,
          ret

studentVars == <<students, index_by_last_name, index_by_grade, index_by_gpa, index_by_email>>
courseVars == <<courses, index_by_department>>
enrollVars == <<enrollments, course_enrollments>>
dataVars == <<studentVars, courseVars, enrollVars>>
textVars == <<word_positions, word_counts, original_text, json_file>>
vars == <<dataVars, textVars, ret>>

----------------------------------------------------------------------------
(* Python values *)

None == [t |-> "none", n |-> 0, s |-> <<>>]
Num(n) == [t |-> "num", n |-> n, s |-> <<>>]
Str(s) == [t |-> "str", n |-> 0, s |-> s]

\* bool(v) as used by "if email", "if department", "x or 0"
Truthy(v) == CASE v.t = "none" -> FALSE
               [] v.t = "num" -> v.n # 0
               [] v.t = "str" -> v.s # <<>>

Min2(a, b) == IF a <= b THEN a ELSE b
Max2(a, b) == IF a >= b THEN a ELSE b

\* str < str: lexicographic on code points, a proper prefix is smaller
StrLt(a, b) ==
    \E i \in 1..(Min2(Len(a), Len(b)) + 1) :
        /\ \A j \in 1..(i - 1) : a[j] = b[j]
        /\ \/ (i > Len(a) /\ i <= Len(b))
           \/ (i <= Len(a) /\ i <= Len(b) /\ a[i] < b[i])

\* a < b on two values: "True", "False", or "TypeError" for unorderable types
ValLt(a, b) ==
    IF a.t = "num" /\ b.t = "num" THEN (IF a.n < b.n THEN "True" ELSE "False")
    ELSE IF a.t = "str" /\ b.t = "str" THEN (IF StrLt(a.s, b.s) THEN "True" ELSE "False")
    ELSE "TypeError"

\* x < y on 2-tuples: the first differing component decides
TupleLt(x, y) ==
    IF x[1] # y[1] THEN ValLt(x[1], y[1])
    ELSE IF x[2] # y[2] THEN ValLt(x[2], y[2])
    ELSE "False"

\* str.lower() on the ASCII range
LowerChar(c) == IF c >= 65 /\ c <= 90 THEN c + 32 ELSE c
Lower(s) == [i \in 1..Len(s) |-> LowerChar(s[i])]

----------------------------------------------------------------------------
(* dict / defaultdict(list) / list primitives *)

Keys(d) == {d[i].k : i \in 1..Len(d)}
Has(d, k) == \E i \in 1..Len(d) : d[i].k = k
Pos(d, k) == CHOOSE i \in 1..Len(d) : d[i].k = k
Get(d, k) == d[Pos(d, k)].v
Values(d) == [i \in 1..Len(d) |-> d[i].v]
\* d[k] = v
Put(d, k, v) ==
    IF Has(d, k) THEN [d EXCEPT ![Pos(d, k)] = [k |-> k, v |-> v]]
    ELSE Append(d, [k |-> k, v |-> v])
\* d[k].append(x) on a defaultdict(list)
default_append_twice(d, k, x) ==
    IF Has(d, k) THEN [d EXCEPT ![Pos(d, k)] = [k |-> k, v |-> Append(Append(d[Pos(d, k)].v, x), x)]]
    ELSE Append(d, [k |-> k, v |-> <<x, x>>])
DefaultAppend(d, k, x) ==
    IF Has(d, k) THEN [d EXCEPT ![Pos(d, k)] = [k |-> k, v |-> Append(d[Pos(d, k)].v, x)]]
    ELSE Append(d, [k |-> k, v |-> <<x>>])
\* d.get(k, default)
GetOr(d, k, default) == IF Has(d, k) THEN Get(d, k) ELSE default

\* list.insert(i, x) with a 0-based index
InsertAt(a, i, x) == SubSeq(a, 1, i) \o <<x>> \o SubSeq(a, i + 1, Len(a))
Reverse(a) == [i \in 1..Len(a) |-> a[Len(a) + 1 - i]]

\* a[start:stop] with Python's normalisation of 0-based, possibly negative bounds
SliceIdx(i, n) == IF i < 0 THEN Max2(i + n, 0) ELSE Min2(i, n)
Slice(a, start, stop) == SubSeq(a, SliceIdx(start, Len(a)) + 1, SliceIdx(stop, Len(a)))
SliceFrom(a, start) == Slice(a, start, Len(a))

----------------------------------------------------------------------------
(* bisect on a list of (gpa, student_id) tuples; indices are 0-based *)

RECURSIVE bisect_right_loop(_, _, _, _)
bisect_right_loop(a, x, lo, hi) ==
    IF lo >= hi THEN [ok |-> TRUE, idx |-> lo]
    ELSE LET mid == (lo + hi) \div 2
             c == TupleLt(x, a[mid + 1])
         IN  IF c = "TypeError" THEN [ok |-> FALSE, idx |-> 0]
             ELSE IF c = "True" THEN bisect_right_loop(a, x, lo, mid)
             ELSE bisect_right_loop(a, x, mid + 1, hi)

RECURSIVE bisect_left_loop(_, _, _, _)
bisect_left_loop(a, x, lo, hi) ==
    IF lo >= hi THEN [ok |-> TRUE, idx |-> lo]
    ELSE LET mid == (lo + hi) \div 2
             c == TupleLt(a[mid + 1], x)
         IN  IF c = "TypeError" THEN [ok |-> FALSE, idx |-> 0]
             ELSE IF c = "True" THEN bisect_left_loop(a, x, mid + 1, hi)
             ELSE bisect_left_loop(a, x, lo, mid)

bisect_right(a, x) == bisect_right_loop(a, x, 0, Len(a))
bisect_left(a, x) == bisect_left_loop(a, x, 0, Len(a))

\* bisect.insort(a, x): [ok, seq]; ok = FALSE when a comparison raised TypeError
insort_unsorted(a, x) == [ok |-> TRUE, seq |-> Append(a, x)]
insort_by_gpa(a, x) ==
    [ok |-> TRUE,
     seq |-> InsertAt(a, Cardinality({i \in 1..Len(a) : a[i][1].n <= x[1].n}), x)]
insort(a, x) ==
    LET r == bisect_right(a, x)
    IN  IF r.ok THEN [ok |-> TRUE, seq |-> InsertAt(a, r.idx, x)]
        ELSE [ok |-> FALSE, seq |-> a]

----------------------------------------------------------------------------
(* StudentIndexer *)

ACTIVE == Str(<<97, 99, 116, 105, 118, 101>>)
\* honor roll threshold 3.5 and the [:5] cut of popular courses
HONOR_GPA == 350
POPULAR_LIMIT == 5

Returned(op, args, val) == [op |-> op, args |-> args, status |-> "return", val |-> val]
Raised(op, args, exc) == [op |-> op, args |-> args, status |-> "raise", val |-> exc]

\* the TextIndex objects of the model
TextObjects == {"A", "B"}
\* the content of a file that was never written
NO_FILE == [exists |-> FALSE, word_positions |-> <<>>, word_counts |-> <<>>, original_text |-> <<>>]

Init ==
    /\ word_positions = [o \in TextObjects |-> <<>>]
    /\ word_counts = [o \in TextObjects |-> <<>>]
    /\ original_text = [o \in TextObjects |-> Str(<<>>)]
    /\ json_file = NO_FILE
    /\ students = <<>>
    /\ courses = <<>>
    /\ enrollments = <<>>
    /\ index_by_last_name = <<>>
    /\ index_by_grade = <<>>
    /\ index_by_gpa = <<>>
    /\ index_by_email = <<>>
    /\ index_by_department = <<>>
    /\ course_enrollments = <<>>
    /\ ret = Returned("__init__", <<>>, None)

\* the student dict built by add_student
new_student_swapped(student_id, first_name, last_name, email, phone, date_of_birth, grade_level, gpa, today) ==
    [student_id |-> student_id, first_name |-> last_name, last_name |-> first_name,
     email |-> email, phone |-> phone, date_of_birth |-> date_of_birth,
     enrollment_date |-> today, grade_level |-> grade_level, gpa |-> gpa,
     status |-> ACTIVE]
new_student(student_id, first_name, last_name, email, phone, date_of_birth, grade_level, gpa, today) ==
    [student_id |-> student_id, first_name |-> first_name, last_name |-> last_name,
     email |-> email, phone |-> phone, date_of_birth |-> date_of_birth,
     enrollment_date |-> today, grade_level |-> grade_level, gpa |-> gpa,
     status |-> ACTIVE]

\* the two rejection tests at the head of add_student
id_exists(student_id) == Has(students, student_id)
email_registered_never(email) == FALSE
email_registered(email) == Truthy(email) /\ Has(index_by_email, email)

\* the early "return False" of add_student
add_student_reject_partial(args) ==
    /\ ret' = Returned("add_student", args, FALSE)
    /\ index_by_last_name' = DefaultAppend(index_by_last_name, Str(Lower(args[3].s)), args[1])
    /\ UNCHANGED <<students, index_by_grade, index_by_gpa, index_by_email, courseVars, enrollVars, textVars>>
add_student_reject(args) ==
    /\ ret' = Returned("add_student", args, FALSE)
    /\ UNCHANGED <<dataVars, textVars>>

add_student(student_id, first_name, last_name, email, phone, date_of_birth, grade_level, gpa, today) ==
    LET args == <<student_id, first_name, last_name, email, phone, date_of_birth, grade_level, gpa>>
        student == new_student(student_id, first_name, last_name, email, phone,
                               date_of_birth, grade_level, gpa, today)
        ins == insort(index_by_gpa, <<gpa, student_id>>)
    IN  IF id_exists(student_id) THEN add_student_reject(args)
        ELSE IF email_registered(email) THEN add_student_reject(args)
        ELSE /\ students' = Put(students, student_id, student)
             /\ UNCHANGED <<courseVars, enrollVars, textVars>>
             /\ IF last_name.t # "str"
                THEN \* last_name.lower() raises after the record was stored
                     /\ ret' = Raised("add_student", args, "AttributeError")
                     /\ UNCHANGED <<index_by_last_name, index_by_grade, index_by_gpa, index_by_email>>
                ELSE /\ index_by_last_name' = DefaultAppend(index_by_last_name, Str(Lower(last_name.s)), student_id)
                     /\ index_by_grade' = IF grade_level # None
                                          THEN DefaultAppend(index_by_grade, grade_level, student_id)
                                          ELSE index_by_grade
                     /\ IF gpa # None /\ ~ins.ok
                        THEN \* a tuple comparison inside insort raises
                             /\ ret' = Raised("add_student", args, "TypeError")
                             /\ UNCHANGED <<index_by_gpa, index_by_email>>
                        ELSE /\ index_by_gpa' = IF gpa # None THEN ins.seq ELSE index_by_gpa
                             /\ index_by_email' = IF Truthy(email)
                                                  THEN Put(index_by_email, email, student_id)
                                                  ELSE index_by_email
                             /\ ret' = Returned("add_student", args, TRUE)

\* search_by_id: self.students.get(student_id)
search_by_id_first(student_id) == IF students = <<>> THEN None ELSE students[1].v
search_by_id(student_id) == GetOr(students, student_id, None)

do_search_by_id(student_id) ==
    /\ ret' = Returned("search_by_id", <<student_id>>, search_by_id(student_id))
    /\ UNCHANGED <<dataVars, textVars>>

----------------------------------------------------------------------------
(* sorted(): stable insertion on [key, item] pairs with numeric keys *)

InsertDesc(sorted, e) ==
    InsertAt(sorted, Cardinality({i \in 1..Len(sorted) : sorted[i].key >= e.key}), e)
InsertAsc(sorted, e) ==
    InsertAt(sorted, Cardinality({i \in 1..Len(sorted) : sorted[i].key <= e.key}), e)

RECURSIVE SortDesc(_)
\* sorted(pairs, key=..., reverse=True): descending, equal keys keep their order
SortDesc(pairs) ==
    IF pairs = <<>> THEN <<>>
    ELSE InsertDesc(SortDesc(SubSeq(pairs, 1, Len(pairs) - 1)), pairs[Len(pairs)])

RECURSIVE SortAsc(_)
\* sorted(pairs, key=...): ascending, equal keys keep their order
SortAsc(pairs) ==
    IF pairs = <<>> THEN <<>>
    ELSE InsertAsc(SortAsc(SubSeq(pairs, 1, Len(pairs) - 1)), pairs[Len(pairs)])

Items(pairs) == [i \in 1..Len(pairs) |-> pairs[i].item]

RECURSIVE SelectSeqIdx(_, _)
\* the subsequence of s at the positions in the index set idx
SelectSeqIdx(s, idx) ==
    IF s = <<>> THEN <<>>
    ELSE LET front == SelectSeqIdx(SubSeq(s, 1, Len(s) - 1), idx)
         IN  IF Len(s) \in idx THEN Append(front, s[Len(s)]) ELSE front

RECURSIVE SumSeq(_)
SumSeq(s) == IF s = <<>> THEN 0 ELSE s[1] + SumSeq(Tail(s))

\* round(num / den) to the nearest integer, ties to even (num >= 0, den > 0)
RoundDiv(num, den) ==
    LET q == num \div den
        r == num % den
    IN  IF 2 * r < den THEN q
        ELSE IF 2 * r > den THEN q + 1
        ELSE IF q % 2 = 0 THEN q ELSE q + 1

----------------------------------------------------------------------------
(* StudentIndexer queries: each yields Returned(...) or Raised(...) *)

\* the sentinels of the two boundary keys: '' and '\xff'
LOW_ID == Str(<<>>)
HIGH_ID == Str(<<255>>)

\* GPA-descending order of the selected slice
range_sorted_identity(pairs) == pairs
range_sorted(pairs) == SortDesc(pairs)

\* upper boundary of the range scan
range_end_exclusive(max_gpa) == bisect_left(index_by_gpa, <<max_gpa, LOW_ID>>)
range_end(max_gpa) == bisect_right(index_by_gpa, <<max_gpa, HIGH_ID>>)

search_by_gpa_range(min_gpa, max_gpa) ==
    LET args == <<min_gpa, max_gpa>>
        start == bisect_left(index_by_gpa, <<min_gpa, LOW_ID>>)
        end == range_end(max_gpa)
        entries == Slice(index_by_gpa, start.idx, end.idx)
        results == [i \in 1..Len(entries) |->
                       [key |-> Get(students, entries[i][2]).gpa.n,
                        item |-> Get(students, entries[i][2])]]
    IN  IF ~start.ok \/ ~end.ok THEN Raised("search_by_gpa_range", args, "TypeError")
        ELSE IF \E i \in 1..Len(entries) : ~Has(students, entries[i][2])
             THEN Raised("search_by_gpa_range", args, "KeyError")
        ELSE Returned("search_by_gpa_range", args, Items(range_sorted(results)))

\* index_by_gpa[-n:]
top_slice_clamped(n) == IF n <= 0 THEN <<>> ELSE SliceFrom(index_by_gpa, -n)
top_slice(n) == SliceFrom(index_by_gpa, -n)

\* [::-1]
top_order_ascending(entries) == entries
top_order(entries) == Reverse(entries)

get_top_students(n) ==
    LET top_entries == top_order(top_slice(n))
    IN  IF \E i \in 1..Len(top_entries) : ~Has(students, top_entries[i][2])
        THEN Raised("get_top_students", <<n>>, "KeyError")
        ELSE Returned("get_top_students", <<n>>,
                      [i \in 1..Len(top_entries) |-> Get(students, top_entries[i][2])])

\* sorted(gpas)[len(gpas)//2]; round(., 2) leaves a value of hundredths as it is
median_lower(gpas) ==
    SortAsc([i \in 1..Len(gpas) |-> [key |-> gpas[i], item |-> gpas[i]]])[((Len(gpas) - 1) \div 2) + 1].item
median(gpas) ==
    SortAsc([i \in 1..Len(gpas) |-> [key |-> gpas[i], item |-> gpas[i]]])[(Len(gpas) \div 2) + 1].item

\* [s['gpa'] for s in self.students.values() if s['gpa'] is not None]
defined_gpas ==
    LET vals == Values(students)
        kept == SelectSeqIdx(vals, {i \in 1..Len(vals) : vals[i].gpa # None})
    IN  [i \in 1..Len(kept) |-> kept[i].gpa.n]

\* Counter over the truthy departments, most_common(): count descending, first seen first
courses_per_department ==
    LET vals == Values(courses)
        depts == SelectSeqIdx(vals, {i \in 1..Len(vals) : Truthy(vals[i].department)})
        firsts == SelectSeqIdx(depts, {i \in 1..Len(depts) :
                                   \A j \in 1..(i - 1) : depts[j].department # depts[i].department})
        counted == [i \in 1..Len(firsts) |->
                       [key |-> Cardinality({j \in 1..Len(depts) : depts[j].department = firsts[i].department}),
                        item |-> firsts[i].department]]
        ordered == SortDesc(counted)
    IN  [i \in 1..Len(ordered) |-> <<ordered[i].item, ordered[i].key>>]

get_statistics ==
    LET gpas == defined_gpas
        \* sorted(self.index_by_grade.items()); grade levels are numbers
        grades == SortAsc([i \in 1..Len(index_by_grade) |->
                              [key |-> index_by_grade[i].k.n, item |-> index_by_grade[i]]])
        popularity == [i \in 1..Len(course_enrollments) |->
                          [key |-> Len(course_enrollments[i].v),
                           item |-> <<course_enrollments[i].k, Len(course_enrollments[i].v),
                                      Get(courses, course_enrollments[i].k).course_name>>]]
        stats == [total_students |-> Len(students),
                  average_gpa |-> IF gpas # <<>> THEN Num(RoundDiv(SumSeq(gpas), Len(gpas))) ELSE None,
                  median_gpa |-> IF gpas # <<>> THEN Num(median(gpas)) ELSE None,
                  students_per_grade |-> [i \in 1..Len(grades) |->
                                             <<grades[i].item.k, Len(grades[i].item.v)>>],
                  honor_students |-> Cardinality({i \in 1..Len(students) :
                                                     /\ students[i].v.gpa.t = "num"
                                                     /\ students[i].v.gpa.n >= HONOR_GPA}),
                  total_courses |-> Len(courses),
                  popular_courses |-> Slice(Items(SortDesc(popularity)), 0, POPULAR_LIMIT),
                  courses_per_department |-> courses_per_department]
    IN  \* s.get('gpa', 0) >= 3.5 compares the stored None with a float
        IF \E i \in 1..Len(students) : students[i].v.gpa.t # "num"
        THEN Raised("get_statistics", <<>>, "TypeError")
        ELSE Returned("get_statistics", <<>>, stats)

do_search_by_gpa_range(min_gpa, max_gpa) ==
    /\ ret' = search_by_gpa_range(min_gpa, max_gpa)
    /\ UNCHANGED <<dataVars, textVars>>

do_get_top_students(n) ==
    /\ ret' = get_top_students(n)
    /\ UNCHANGED <<dataVars, textVars>>

do_get_statistics ==
    /\ ret' = get_statistics
    /\ UNCHANGED <<dataVars, textVars>>

----------------------------------------------------------------------------
(* Inputs *)

MaxStudents == 2
MaxGpaStudents == 3

ID_A == Str(<<65>>)
ID_B == Str(<<66>>)
ID_C == Str(<<67>>)
ID_D == Str(<<68>>)
\* a string identifier whose first character lies above U+00FF
ID_WIDE == Str(<<256>>)
\* an integer identifier
ID_INT == Num(1)

FIRST == Str(<<65, 108>>)
LEE == Str(<<76, 101, 101>>)
PHONE == Str(<<53, 53, 53>>)
EMAIL_X == Str(<<120, 64, 121>>)
EMPTY == Str(<<>>)
TODAY == Str(<<50, 48, 50, 52, 45, 48, 57, 45, 48, 49>>)

Ids == {ID_A, ID_B, ID_INT}
Emails == {None, EMPTY, EMAIL_X}
\* (grade_level, gpa) pairs: each field given on its own
GradeGpas == {<<Num(10), None>>, <<None, Num(350)>>}

GpaIds == {ID_A, ID_B, ID_WIDE, ID_INT}
GpaValues == {None, Num(350), Num(370)}
GpaQueryBounds == {Num(340), Num(350), Num(360), Num(370)}

\* A(gpa=3.8), B(gpa=3.5), C(gpa=3.9), D(gpa=3.7)
ScenarioStudents == {<<ID_A, Num(380)>>, <<ID_B, Num(350)>>, <<ID_C, Num(390)>>, <<ID_D, Num(370)>>}

\* an add_student call that keeps the collection within the bound, or is rejected
Admissible(bound, student_id, email) ==
    Len(students) < bound \/ id_exists(student_id) \/ email_registered(email)

----------------------------------------------------------------------------
(* Specifications *)

AddAny ==
    \E student_id \in Ids, email \in Emails, gg \in GradeGpas :
        /\ Admissible(MaxStudents, student_id, email)
        /\ add_student(student_id, FIRST, LEE, email, PHONE, None, gg[1], gg[2], TODAY)

LookupId == \E student_id \in Ids : do_search_by_id(student_id)

Next == AddAny \/ LookupId

Spec == Init /\ [][Next]_vars

AddGpa ==
    \E student_id \in GpaIds, gpa \in GpaValues :
        /\ Admissible(MaxGpaStudents, student_id, None)
        /\ add_student(student_id, FIRST, LEE, None, None, None, None, gpa, TODAY)

QueryRange == \E lo \in GpaQueryBounds, hi \in GpaQueryBounds : do_search_by_gpa_range(lo, hi)

QueryTop == \E n \in 0..(MaxGpaStudents + 1) : do_get_top_students(n)

QueryStatistics == do_get_statistics

NextGpa == AddGpa \/ QueryRange \/ QueryTop \/ QueryStatistics

SpecGpa == Init /\ [][NextGpa]_vars

AddScenario ==
    \E st \in ScenarioStudents :
        add_student(st[1], FIRST, LEE, None, None, None, None, st[2], TODAY)

ScenarioTop == do_get_top_students(2)

ScenarioRange == do_search_by_gpa_range(Num(360), Num(385))

NextScenario == AddScenario \/ ScenarioTop \/ ScenarioRange

SpecScenario == Init /\ [][NextScenario]_vars

----------------------------------------------------------------------------
(* Properties of add_student *)

AddSucceeded == ret.op = "add_student" /\ ret.status = "return" /\ ret.val = TRUE
AddRejected == ret.op = "add_student" /\ ret.status = "return" /\ ret.val = FALSE

\* C1: right after a successful add_student(id, ...), search_by_id(id) yields
\* the record that holds exactly the supplied id and field values.
C1_LookupAfterAdd ==
    AddSucceeded =>
        LET r == search_by_id(ret.args[1])
        IN  /\ r # None
            /\ r.student_id = ret.args[1]
            /\ r.first_name = ret.args[2]
            /\ r.last_name = ret.args[3]
            /\ r.email = ret.args[4]
            /\ r.phone = ret.args[5]
            /\ r.date_of_birth = ret.args[6]
            /\ r.grade_level = ret.args[7]
            /\ r.gpa = ret.args[8]

C1_Witness ==
    /\ AddSucceeded
    /\ Len(students) = 2
    /\ students[2].k = ret.args[1]
    /\ ret.args[4] = EMAIL_X

\* C2: add_student called with an id that already exists, or with a non-empty
\* email already registered in index_by_email, returns False and the number
\* of students stays the same.
C2_DuplicateRejected ==
    [][(/\ ret'.op = "add_student"
        /\ \/ Has(students, ret'.args[1])
           \/ (ret'.args[4].s # <<>> /\ Has(index_by_email, ret'.args[4])))
       => (/\ ret'.status = "return"
           /\ ret'.val = FALSE
           /\ Len(students') = Len(students))]_vars

\* S1 holds x@y, and the call just rejected used another id with that email
C2_Witness ==
    /\ AddRejected
    /\ Len(students) = 1
    /\ ~Has(students, ret.args[1])
    /\ ret.args[4] = EMAIL_X
    /\ students[1].v.email = EMAIL_X

\* C3: a rejected add_student leaves students and the four student indexes
\* exactly as they were.
C3_RejectIsNoop ==
    [][(ret'.op = "add_student" /\ ret'.status = "return" /\ ret'.val = FALSE)
       => UNCHANGED studentVars]_vars

\* the call just rejected repeated an existing id
C3_Witness ==
    /\ AddRejected
    /\ Has(students, ret.args[1])
    /\ Len(index_by_last_name) = 1
    /\ Len(index_by_last_name[1].v) = Len(students)

\* C4: index_by_gpa is in ascending order of GPA after any sequence of
\* add_student calls.
C4_GpaIndexSorted ==
    \A i \in 1..(Len(index_by_gpa) - 1) :
        index_by_gpa[i][1].n <= index_by_gpa[i + 1][1].n

\* three entries, the first two inserted in descending GPA order
C4_Witness ==
    /\ Len(index_by_gpa) = 3
    /\ Len(students) = 3
    /\ students[1].v.gpa = Num(370)
    /\ students[2].v.gpa = Num(350)
    /\ ret.op = "add_student"

----------------------------------------------------------------------------
(* Properties of the GPA queries *)

ResultIds(records) == {records[i].student_id : i \in 1..Len(records)}
ResultIdSeq(records) == [i \in 1..Len(records) |-> records[i].student_id]
GpaDescending(records) ==
    \A i \in 1..(Len(records) - 1) : records[i].gpa.n >= records[i + 1].gpa.n

\* positions in students of the students that have a GPA
GpaBearing == {i \in 1..Len(students) : students[i].v.gpa # None}

\* C5: search_by_gpa_range(lo, hi) returns exactly the students with
\* lo <= gpa <= hi, each once, whatever their identifiers are.
C5_RangeIsLinearFilter ==
    ret.op = "search_by_gpa_range" =>
        /\ ret.status = "return"
        /\ ResultIds(ret.val) =
               {students[i].k : i \in {j \in GpaBearing :
                    /\ ret.args[1].n <= students[j].v.gpa.n
                    /\ students[j].v.gpa.n <= ret.args[2].n}}
        /\ Len(ret.val) = Cardinality(ResultIds(ret.val))

\* C6: get_top_students(k) returns a set of min(k, n) GPA-bearing students
\* none of which has a lower GPA than a GPA-bearing student left out, which is
\* what sorting descending by gpa and keeping the first k gives (up to the
\* choice among equal GPAs).
C6_TopIsSortedPrefix ==
    ret.op = "get_top_students" =>
        /\ ret.status = "return"
        /\ ResultIds(ret.val) \subseteq {students[i].k : i \in GpaBearing}
        /\ Cardinality(ResultIds(ret.val)) = Min2(ret.args[1], Cardinality(GpaBearing))
        /\ \A i \in 1..Len(ret.val) : \A j \in GpaBearing :
               students[j].k \notin ResultIds(ret.val) => ret.val[i].gpa.n >= students[j].v.gpa.n

\* C7: for every k >= 0, get_top_students(k) returns exactly
\* min(k, len(index_by_gpa)) students, in descending GPA order.
C7_TopCount ==
    (ret.op = "get_top_students" /\ ret.args[1] >= 0) =>
        /\ ret.status = "return"
        /\ Len(ret.val) = Min2(ret.args[1], Len(index_by_gpa))
        /\ GpaDescending(ret.val)

\* C8: with A(3.8), B(3.5), C(3.9), D(3.7) inserted in this order,
\* get_top_students(2) is [C, A] and search_by_gpa_range(3.6, 3.85) is [A, D].
C8_Scenario ==
    [i \in 1..Len(students) |-> students[i].k] = <<ID_A, ID_B, ID_C, ID_D>> =>
        /\ get_top_students(2).status = "return"
        /\ ResultIdSeq(get_top_students(2).val) = <<ID_C, ID_A>>
        /\ search_by_gpa_range(Num(360), Num(385)).status = "return"
        /\ ResultIdSeq(search_by_gpa_range(Num(360), Num(385)).val) = <<ID_A, ID_D>>
        /\ (ret.op = "get_top_students" => ResultIdSeq(ret.val) = <<ID_C, ID_A>>)
        /\ (ret.op = "search_by_gpa_range" => ResultIdSeq(ret.val) = <<ID_A, ID_D>>)

C8_Witness ==
    /\ [i \in 1..Len(students) |-> students[i].k] = <<ID_A, ID_B, ID_C, ID_D>>
    /\ ret.op = "search_by_gpa_range"
    /\ Len(ret.val) = 2

----------------------------------------------------------------------------
(* Index consistency and statistics *)

Elems(list) == {list[i] : i \in 1..Len(list)}

\* C9: every student of the primary collection is filed in every index over a
\* field it populates.
C9_IndexesCoverStudents ==
    \A i \in 1..Len(students) :
        LET sid == students[i].k
            st == students[i].v
        IN  /\ Has(index_by_last_name, Str(Lower(st.last_name.s)))
            /\ sid \in Elems(Get(index_by_last_name, Str(Lower(st.last_name.s))))
            /\ st.grade_level # None =>
                   /\ Has(index_by_grade, st.grade_level)
                   /\ sid \in Elems(Get(index_by_grade, st.grade_level))
            /\ st.gpa # None => <<st.gpa, sid>> \in Elems(index_by_gpa)
            /\ Truthy(st.email) =>
                   /\ Has(index_by_email, st.email)
                   /\ Get(index_by_email, st.email) = sid

StatisticsReturned == ret.op = "get_statistics" /\ ret.status = "return"

\* the element of 0-based rank r in the ascending order of the defined GPAs
HasRank(m, r) ==
    /\ Cardinality({i \in GpaBearing : students[i].v.gpa.n < m}) <= r
    /\ Cardinality({i \in GpaBearing : students[i].v.gpa.n <= m}) > r

\* C10 as stated: median_gpa is the middle element of the sorted GPAs, the
\* lower-middle one (v[m-1] of v[0..2m-1]) when their number is even.
C10_LowerMiddle ==
    (StatisticsReturned /\ GpaBearing # {}) =>
        HasRank(ret.val.median_gpa.n, (Cardinality(GpaBearing) - 1) \div 2)

\* C10 amended: median_gpa is the element at index len // 2 of the sorted
\* GPAs, which is the upper-middle one (v[m] of v[0..2m-1]) when their number
\* is even.
C10_UpperMiddle ==
    (StatisticsReturned /\ GpaBearing # {}) =>
        HasRank(ret.val.median_gpa.n, Cardinality(GpaBearing) \div 2)

\* two students with different GPAs
C10_Witness ==
    /\ StatisticsReturned
    /\ Cardinality(GpaBearing) = 2
    /\ students[1].v.gpa # students[2].v.gpa

----------------------------------------------------------------------------
(* Further properties of get_statistics and the GPA queries *)

RECURSIVE GpaSum(_)
\* sum of the GPAs of the students at the positions in idx
GpaSum(idx) ==
    IF idx = {} THEN 0
    ELSE LET i == CHOOSE j \in idx : TRUE
         IN  students[i].v.gpa.n + GpaSum(idx \ {i})

\* C11: get_statistics completes for any population, also with students added
\* with gpa=None, and average_gpa and median_gpa range over exactly the
\* students that have a gpa.
C11_StatisticsSkipsMissingGpa ==
    ret.op = "get_statistics" =>
        /\ ret.status = "return"
        /\ GpaBearing = {} => (ret.val.average_gpa = None /\ ret.val.median_gpa = None)
        /\ GpaBearing # {} =>
               /\ ret.val.average_gpa = Num(RoundDiv(GpaSum(GpaBearing), Cardinality(GpaBearing)))
               /\ ret.val.median_gpa \in {students[i].v.gpa : i \in GpaBearing}

\* C13: search_by_gpa_range returns a list and never raises, for string and
\* integer identifiers and any bounds.
C13_RangeNeverRaises ==
    ret.op = "search_by_gpa_range" => ret.status = "return"

\* C14: the list returned by search_by_gpa_range is in descending GPA order.
C14_RangeDescending ==
    (ret.op = "search_by_gpa_range" /\ ret.status = "return") => GpaDescending(ret.val)

\* a result of two students with different GPAs
C14_Witness ==
    /\ ret.op = "search_by_gpa_range"
    /\ ret.status = "return"
    /\ Len(ret.val) >= 2
    /\ ret.val[1].gpa.n > ret.val[Len(ret.val)].gpa.n

\* records[i] and records[j] are two students with the same GPA
Tied(records, i, j) == i < j /\ records[i].gpa = records[j].gpa

\* the order in which two returned students were added
AddedBefore(r1, r2) == Pos(students, r1.student_id) < Pos(students, r2.student_id)

\* C15 as stated: equal-GPA students come out in the order they were added,
\* in get_top_students and in search_by_gpa_range alike.
C15_TiesByInsertionOrder ==
    (ret.op \in {"get_top_students", "search_by_gpa_range"} /\ ret.status = "return") =>
        \A i, j \in 1..Len(ret.val) :
            Tied(ret.val, i, j) => AddedBefore(ret.val[i], ret.val[j])

\* C15 amended: equal-GPA students are ordered by identifier, not by insertion:
\* ascending in search_by_gpa_range, descending in get_top_students.
C15_TiesByIdentifier ==
    /\ (ret.op = "search_by_gpa_range" /\ ret.status = "return") =>
           \A i, j \in 1..Len(ret.val) :
               Tied(ret.val, i, j) => ValLt(ret.val[i].student_id, ret.val[j].student_id) = "True"
    /\ (ret.op = "get_top_students" /\ ret.status = "return") =>
           \A i, j \in 1..Len(ret.val) :
               Tied(ret.val, i, j) => ValLt(ret.val[j].student_id, ret.val[i].student_id) = "True"

\* two tied students, the one added first has the larger identifier, and the
\* range query lists it last
C15_Witness ==
    /\ ret.op = "search_by_gpa_range"
    /\ ret.status = "return"
    /\ Len(ret.val) = 2
    /\ Tied(ret.val, 1, 2)
    /\ AddedBefore(ret.val[2], ret.val[1])

----------------------------------------------------------------------------
(* add_student with a GPA that is not a number *)

\* the string 'abc' passed as gpa
BAD_GPA == Str(<<97, 98, 99>>)
InputGpas == {Num(350), BAD_GPA}

AddInput ==
    \E student_id \in Ids, gpa \in InputGpas :
        add_student(student_id, FIRST, LEE, None, None, None, None, gpa, TODAY)

NextInput == AddInput \/ LookupId

SpecInput == Init /\ [][NextInput]_vars

\* C12: add_student with a GPA that is not a number is rejected at the call
\* boundary: the call does not return True and neither students nor any index
\* changes.
C12_NonNumericGpaRejected ==
    [][(ret'.op = "add_student" /\ ret'.args[8].t = "str")
       => (/\ UNCHANGED studentVars
           /\ ~(ret'.status = "return" /\ ret'.val = TRUE))]_vars

----------------------------------------------------------------------------
(* TextIndex *)

\* \w on the ASCII range: digits, letters and the underscore
IsWordChar(c) ==
    \/ (c >= 48 /\ c <= 57)
    \/ (c >= 65 /\ c <= 90)
    \/ c = 95
    \/ (c >= 97 /\ c <= 122)

RECURSIVE find_words_loop(_, _, _, _)
\* scan s from position i; cur is the run of word characters being read
find_words_loop(s, i, cur, acc) ==
    IF i > Len(s) THEN (IF cur = <<>> THEN acc ELSE Append(acc, cur))
    ELSE IF IsWordChar(s[i]) THEN find_words_loop(s, i + 1, Append(cur, s[i]), acc)
    ELSE find_words_loop(s, i + 1, <<>>, IF cur = <<>> THEN acc ELSE Append(acc, cur))

\* re.findall(r'\b\w+\b', s): the maximal runs of word characters, in order
find_words(s) == find_words_loop(s, 1, <<>>, <<>>)

\* counter[k] += 1
counter_increment_known(d, k) ==
    IF Has(d, k) THEN [d EXCEPT ![Pos(d, k)] = [k |-> k, v |-> d[Pos(d, k)].v + 1]]
    ELSE d
CounterIncrement(d, k) ==
    IF Has(d, k) THEN [d EXCEPT ![Pos(d, k)] = [k |-> k, v |-> d[Pos(d, k)].v + 1]]
    ELSE Append(d, [k |-> k, v |-> 1])

RECURSIVE index_words(_, _, _, _)
\* the loop of build_index over enumerate(words), from 0-based position onwards
index_words(wp, wc, words, position) ==
    IF position >= Len(words) THEN [word_positions |-> wp, word_counts |-> wc]
    ELSE index_words(DefaultAppend(wp, Str(words[position + 1]), position),
                     CounterIncrement(wc, Str(words[position + 1])),
                     words, position + 1)

build_index(o, text) ==
    LET built == index_words(word_positions[o], word_counts[o], find_words(Lower(text.s)), 0)
    IN  /\ original_text' = [original_text EXCEPT ![o] = text]
        /\ word_positions' = [word_positions EXCEPT ![o] = built.word_positions]
        /\ word_counts' = [word_counts EXCEPT ![o] = built.word_counts]
        /\ ret' = Returned("build_index", <<o, text>>, None)
        /\ UNCHANGED <<json_file, dataVars>>

search_exact(o, term) ==
    IF Has(word_positions[o], term) THEN Get(word_positions[o], term) ELSE <<>>
search(o, term) ==
    LET key == Str(Lower(term.s))
    IN  IF Has(word_positions[o], key) THEN Get(word_positions[o], key) ELSE <<>>

do_search(o, term) ==
    /\ ret' = Returned("search", <<o, term>>, search(o, term))
    /\ UNCHANGED <<dataVars, textVars>>

RECURSIVE Join(_, _)
\* sep.join(words)
Join(words, sep) ==
    IF words = <<>> THEN <<>>
    ELSE IF Len(words) = 1 THEN words[1]
    ELSE words[1] \o sep \o Join(Tail(words), sep)

SPACE == <<32>>
\* default context_size of get_context
CONTEXT_SIZE == 2

get_context(o, word, context_size) ==
    LET positions == GetOr(word_positions[o], Str(Lower(word.s)), <<>>)
        words == find_words(Lower(original_text[o].s))
    IN  [i \in 1..Len(positions) |->
            Str(Join(Slice(words,
                           Max2(0, positions[i] - context_size),
                           Min2(Len(words), positions[i] + context_size + 1)),
                     SPACE))]

do_get_context(o, word) ==
    /\ ret' = Returned("get_context", <<o, word>>, get_context(o, word, CONTEXT_SIZE))
    /\ UNCHANGED <<dataVars, textVars>>

\* json.dump of a dict with str keys: an object whose member names are the keys
JsonObject(d) == [i \in 1..Len(d) |-> [name |-> d[i].k.s, value |-> d[i].v]]
\* json.load of an object: a dict with str keys
FromJsonObject(obj) == [i \in 1..Len(obj) |-> [k |-> Str(obj[i].name), v |-> obj[i].value]]

save_to_json(o) ==
    /\ json_file' = [exists |-> TRUE,
                     word_positions |-> JsonObject(word_positions[o]),
                     word_counts |-> JsonObject(word_counts[o]),
                     original_text |-> original_text[o].s]
    /\ ret' = Returned("save_to_json", <<o>>, None)
    /\ UNCHANGED <<word_positions, word_counts, original_text, dataVars>>

\* defaultdict(list, data['word_positions'])
loaded_positions_merged(o, data) ==
    word_positions[o] \o SelectSeq(FromJsonObject(data.word_positions),
                                   LAMBDA e : ~Has(word_positions[o], e.k))
loaded_positions(o, data) == FromJsonObject(data.word_positions)

load_from_json(o) ==
    IF ~json_file.exists
    THEN /\ ret' = Raised("load_from_json", <<o>>, "FileNotFoundError")
         /\ UNCHANGED <<dataVars, textVars>>
    ELSE /\ word_positions' = [word_positions EXCEPT ![o] = loaded_positions(o, json_file)]
         /\ word_counts' = [word_counts EXCEPT ![o] = FromJsonObject(json_file.word_counts)]
         /\ original_text' = [original_text EXCEPT ![o] = Str(json_file.original_text)]
         /\ ret' = Returned("load_from_json", <<o>>, None)
         /\ UNCHANGED <<json_file, dataVars>>

\* number of word occurrences held by the index of o
IndexedTokens(o) == SumSeq([i \in 1..Len(word_counts[o]) |-> word_counts[o][i].v])

MaxIndexedTokens == 3

\* "a b", "A" and "a b A"
TEXT_AB == Str(<<97, 32, 98>>)
TEXT_UPPER_A == Str(<<65>>)
TEXT_ABA == Str(<<97, 32, 98, 32, 65>>)
Texts == {TEXT_AB, TEXT_UPPER_A, TEXT_ABA}
\* "a", "B", "zz"
Terms == {Str(<<97>>), Str(<<66>>), Str(<<122, 122>>)}

\* self.word_counts.most_common(n): heapq.nlargest(n, items, key=count), the
\* first n of the (word, count) pairs by descending count, equal counts in
\* the order of first occurrence; nothing for n <= 0
get_most_common(o, n) ==
    LET counted == SortDesc([i \in 1..Len(word_counts[o]) |->
                               [key |-> word_counts[o][i].v,
                                item |-> <<word_counts[o][i].k, word_counts[o][i].v>>]])
    IN  IF n <= 0 THEN <<>> ELSE SubSeq(Items(counted), 1, Min2(n, Len(counted)))

do_get_most_common(o, n) ==
    /\ ret' = Returned("get_most_common", <<o, n>>, get_most_common(o, n))
    /\ UNCHANGED <<dataVars, textVars>>

\* n of get_most_common: the default and a shorter list
MOST_COMMON_DEFAULT == 5
MostCommonSizes == {1, MOST_COMMON_DEFAULT}

Build ==
    \E o \in TextObjects, text \in Texts :
        /\ IndexedTokens(o) + Len(find_words(Lower(text.s))) <= MaxIndexedTokens
        /\ build_index(o, text)

Search == \E o \in TextObjects, term \in Terms : do_search(o, term)

Context == \E o \in TextObjects, word \in Terms : do_get_context(o, word)

Save == \E o \in TextObjects : save_to_json(o)

Load == \E o \in TextObjects : load_from_json(o)

MostCommon == \E o \in TextObjects, n \in MostCommonSizes : do_get_most_common(o, n)

NextText == Build \/ Search \/ Context \/ Save \/ Load \/ MostCommon

SpecText == Init /\ [][NextText]_vars

----------------------------------------------------------------------------
(* Properties of the TextIndex snapshot *)

\* C19: a.save_to_json(f) followed by b.load_from_json(f) leaves b with a's
\* word_positions, word_counts and original_text, whatever b held before, so
\* that search and get_context answer on b as they did on a.
C19_JsonRoundTrip ==
    [][\A a, b \in TextObjects :
          (/\ ret.op = "save_to_json" /\ ret.args[1] = a
           /\ ret'.op = "load_from_json" /\ ret'.args[1] = b /\ ret'.status = "return")
          => /\ word_positions'[b] = word_positions[a]
             /\ word_counts'[b] = word_counts[a]
             /\ original_text'[b] = original_text[a]
             /\ \A term \in Terms :
                    /\ search(b, term)' = search(a, term)
                    /\ get_context(b, term, CONTEXT_SIZE)' = get_context(a, term, CONTEXT_SIZE)]_vars

\* B has just loaded the snapshot of an index built from "a b" and then "A"
C19_Witness ==
    /\ ret.op = "load_from_json"
    /\ ret.status = "return"
    /\ ret.args[1] = "B"
    /\ original_text["B"] = TEXT_UPPER_A
    /\ Len(word_positions["B"]) = 2
    /\ word_positions["A"] = word_positions["B"]
    /\ search("B", Str(<<65>>)) = <<0, 0>>
    /\ get_context("B", Str(<<66>>), CONTEXT_SIZE) = <<Str(<<97>>)>>

----------------------------------------------------------------------------
(* StudentIndexer name and grade-level searches *)

\* needle in haystack on two strings
Contains(haystack, needle) ==
    \E i \in 0..(Len(haystack) - Len(needle)) :
        SubSeq(haystack, i + 1, i + Len(needle)) = needle

\* the index key of a last name: last_name.lower()
name_key_exact(last_name) == Str(last_name.s)
name_key(last_name) == Str(Lower(last_name.s))

\* [self.students[sid] for sid in student_ids]
students_of(op, args, student_ids) ==
    IF \E i \in 1..Len(student_ids) : ~Has(students, student_ids[i])
    THEN Raised(op, args, "KeyError")
    ELSE Returned(op, args, [i \in 1..Len(student_ids) |-> Get(students, student_ids[i])])

search_by_name(last_name) ==
    students_of("search_by_name", <<last_name>>,
                GetOr(index_by_last_name, name_key(last_name), <<>>))

\* the test of search_by_partial_name on one student; name_part is lower-cased
partial_match_last_only(student, name_part) ==
    Contains(Lower(student.last_name.s), name_part)
partial_match(student, name_part) ==
    \/ Contains(Lower(student.first_name.s), name_part)
    \/ Contains(Lower(student.last_name.s), name_part)

search_by_partial_name(name_part) ==
    LET vals == Values(students)
    IN  Returned("search_by_partial_name", <<name_part>>,
                 SelectSeqIdx(vals, {i \in 1..Len(vals) : partial_match(vals[i], Lower(name_part.s))}))

\* s.get('gpa') or 0
gpa_or_zero(student) == IF Truthy(student.gpa) THEN student.gpa.n ELSE 0

search_by_grade_level(grade_level) ==
    LET found == students_of("search_by_grade_level", <<grade_level>>,
                             GetOr(index_by_grade, grade_level, <<>>))
    IN  IF found.status = "raise" THEN found
        ELSE Returned("search_by_grade_level", <<grade_level>>,
                      Items(SortDesc([i \in 1..Len(found.val) |->
                                         [key |-> gpa_or_zero(found.val[i]), item |-> found.val[i]]])))

do_search_by_name(last_name) ==
    /\ ret' = search_by_name(last_name)
    /\ UNCHANGED <<dataVars, textVars>>

do_search_by_partial_name(name_part) ==
    /\ ret' = search_by_partial_name(name_part)
    /\ UNCHANGED <<dataVars, textVars>>

do_search_by_grade_level(grade_level) ==
    /\ ret' = search_by_grade_level(grade_level)
    /\ UNCHANGED <<dataVars, textVars>>

MaxLookupStudents == 2

\* "Eli", "LEE", "Wu"
ELI == Str(<<69, 108, 105>>)
LEE_UPPER == Str(<<76, 69, 69>>)
WU == Str(<<87, 117>>)
\* (first_name, last_name) pairs
NamePairs == {<<FIRST, LEE>>, <<FIRST, LEE_UPPER>>, <<ELI, WU>>}
\* "lEE", "wu", "zz"
NameQueries == {Str(<<108, 69, 69>>), Str(<<119, 117>>), Str(<<122, 122>>)}
\* "EE", "Li", "z"
NameFragments == {Str(<<69, 69>>), Str(<<76, 105>>), Str(<<122>>)}
GradeQueries == {Num(10), Num(11)}
\* (min_gpa, max_gpa) pairs: below and at a stored GPA, inverted, above
RangeQueries == {<<Num(340), Num(350)>>, <<Num(350), Num(340)>>, <<Num(360), Num(370)>>}

AddNamed ==
    \E student_id \in Ids, names \in NamePairs, gg \in GradeGpas :
        /\ Admissible(MaxLookupStudents, student_id, None)
        /\ add_student(student_id, names[1], names[2], None, None, None, gg[1], gg[2], TODAY)

LookupName == \E q \in NameQueries : do_search_by_name(q)

LookupPartial == \E q \in NameFragments : do_search_by_partial_name(q)

LookupGrade == \E g \in GradeQueries : do_search_by_grade_level(g)

LookupRange == \E q \in RangeQueries : do_search_by_gpa_range(q[1], q[2])

LookupTop == \E n \in 1..2 : do_get_top_students(n)

BuildOnce == word_positions["A"] = <<>> /\ build_index("A", TEXT_AB)

SearchText == \E term \in Terms : do_search("A", term)

NextLookup ==
    \/ AddNamed
    \/ LookupName
    \/ LookupPartial
    \/ LookupGrade
    \/ LookupRange
    \/ LookupTop
    \/ BuildOnce
    \/ SearchText

SpecLookup == Init /\ [][NextLookup]_vars

----------------------------------------------------------------------------
(* Properties of the lookups *)

ReturnedEmpty == ret.status = "return" /\ ret.val = <<>>

\* the stored students, as positions in students, that satisfy a lookup
WithLastName(q) == {i \in 1..Len(students) : Lower(students[i].v.last_name.s) = Lower(q.s)}
WithNamePart(q) ==
    {i \in 1..Len(students) :
        \/ Contains(Lower(students[i].v.first_name.s), Lower(q.s))
        \/ Contains(Lower(students[i].v.last_name.s), Lower(q.s))}
WithGrade(g) == {i \in 1..Len(students) : students[i].v.grade_level = g}
WithGpaIn(lo, hi) ==
    {i \in GpaBearing : lo.n <= students[i].v.gpa.n /\ students[i].v.gpa.n <= hi.n}

\* C16: a lookup that matches nothing returns an empty list instead of
\* failing, for each of the five student lookups and for TextIndex.search.
C16_NoMatchIsEmpty ==
    /\ (ret.op = "search_by_name" /\ WithLastName(ret.args[1]) = {}) => ReturnedEmpty
    /\ (ret.op = "search_by_grade_level" /\ WithGrade(ret.args[1]) = {}) => ReturnedEmpty
    /\ (ret.op = "search_by_partial_name" /\ WithNamePart(ret.args[1]) = {}) => ReturnedEmpty
    /\ (ret.op = "search_by_gpa_range" /\ WithGpaIn(ret.args[1], ret.args[2]) = {}) => ReturnedEmpty
    /\ (ret.op = "get_top_students" /\ GpaBearing = {}) => ReturnedEmpty
    /\ (ret.op = "search" /\ ~Has(word_positions[ret.args[1]], Str(Lower(ret.args[2].s))))
           => ReturnedEmpty

\* C17: search_by_name(q) returns exactly the students whose lower-cased last
\* name equals the lower-cased q, in the order they were added.
C17_NameSearchFoldsCase ==
    ret.op = "search_by_name" =>
        /\ ret.status = "return"
        /\ ret.val = SelectSeqIdx(Values(students), WithLastName(ret.args[1]))

\* "lEE" finds a student stored as "Lee" and one stored as "LEE"
C17_Witness ==
    /\ ret.op = "search_by_name"
    /\ ret.status = "return"
    /\ Len(ret.val) = 2
    /\ ret.val[1].last_name = LEE_UPPER
    /\ ret.val[2].last_name = LEE

\* C18: search_by_partial_name(fragment) returns exactly the students whose
\* first or last name contains the fragment, compared in lower case, each
\* once, in the order of the scan over students.
C18_PartialNameScan ==
    ret.op = "search_by_partial_name" =>
        /\ ret.status = "return"
        /\ ret.val = SelectSeqIdx(Values(students), WithNamePart(ret.args[1]))

\* "Li" matches Eli Wu by the first name only, and not the student named Lee
C18_Witness ==
    /\ ret.op = "search_by_partial_name"
    /\ ret.status = "return"
    /\ Len(students) = 2
    /\ Len(ret.val) = 1
    /\ ret.val[1].first_name = ELI
    /\ ret.args[1] = Str(<<76, 105>>)

----------------------------------------------------------------------------
(* StudentIndexer courses and enrollments *)

\* department.lower(), the key of index_by_department
department_key_exact(department) == department
department_key(department) == Str(Lower(department.s))

add_course(course_code, course_name, credits, department) ==
    LET args == <<course_code, course_name, credits, department>>
        course == [course_code |-> course_code, course_name |-> course_name,
                   credits |-> credits, department |-> department]
    IN  IF Has(courses, course_code)
        THEN /\ ret' = Returned("add_course", args, FALSE)
             /\ UNCHANGED <<dataVars, textVars>>
        ELSE /\ courses' = Put(courses, course_code, course)
             /\ UNCHANGED <<studentVars, enrollVars, textVars>>
             /\ IF ~Truthy(department)
                THEN /\ ret' = Returned("add_course", args, TRUE)
                     /\ UNCHANGED index_by_department
                ELSE IF department.t # "str"
                THEN \* department.lower() raises after the course was stored
                     /\ ret' = Raised("add_course", args, "AttributeError")
                     /\ UNCHANGED index_by_department
                ELSE /\ index_by_department' =
                            DefaultAppend(index_by_department, department_key(department), course_code)
                     /\ ret' = Returned("add_course", args, TRUE)

\* the enrollment dict built by enroll_student
new_enrollment_swapped(student_id, course_code, semester, grade, score, now) ==
    [student_id |-> course_code, course_code |-> student_id, semester |-> semester,
     grade |-> grade, score |-> score, enrollment_date |-> now]
new_enrollment(student_id, course_code, semester, grade, score, now) ==
    [student_id |-> student_id, course_code |-> course_code, semester |-> semester,
     grade |-> grade, score |-> score, enrollment_date |-> now]

\* self.course_enrollments[course_code].append(student_id)
roster_append_once(course_code, student_id) ==
    IF Has(course_enrollments, course_code)
       /\ \E i \in 1..Len(Get(course_enrollments, course_code)) :
              Get(course_enrollments, course_code)[i] = student_id
    THEN course_enrollments
    ELSE DefaultAppend(course_enrollments, course_code, student_id)
roster_append(course_code, student_id) ==
    DefaultAppend(course_enrollments, course_code, student_id)

enroll_student(student_id, course_code, semester, grade, score, now) ==
    LET args == <<student_id, course_code, semester, grade, score>>
    IN  IF ~Has(students, student_id) \/ ~Has(courses, course_code)
        THEN /\ ret' = Returned("enroll_student", args, FALSE)
             /\ UNCHANGED <<dataVars, textVars>>
        ELSE /\ enrollments' = DefaultAppend(enrollments, student_id,
                                   new_enrollment(student_id, course_code, semester, grade, score, now))
             /\ course_enrollments' = roster_append(course_code, student_id)
             /\ ret' = Returned("enroll_student", args, TRUE)
             /\ UNCHANGED <<studentVars, courseVars, textVars>>

\* s['score'] or 0
score_or_zero(row) == IF Truthy(row.score) THEN row.score ELSE Num(0)

\* sorted(rows, key=lambda s: s['score'] or 0, reverse=True) compares the keys
\* with <; keys of two types cannot be ordered
unorderable(rows) ==
    \E i, j \in 1..Len(rows) : score_or_zero(rows[i]).t # score_or_zero(rows[j]).t

InsertByScore(sorted, row) ==
    InsertAt(sorted,
             Cardinality({i \in 1..Len(sorted) :
                             ValLt(score_or_zero(sorted[i]), score_or_zero(row)) = "False"}),
             row)

RECURSIVE sorted_by_score(_)
\* descending by score, rows of equal score keep their order
sorted_by_score(rows) ==
    IF rows = <<>> THEN <<>>
    ELSE InsertByScore(sorted_by_score(SubSeq(rows, 1, Len(rows) - 1)), rows[Len(rows)])

get_student_courses(student_id) ==
    LET found == GetOr(enrollments, student_id, <<>>)
    IN  IF \E i \in 1..Len(found) : ~Has(courses, found[i].course_code)
        THEN Raised("get_student_courses", <<student_id>>, "KeyError")
        ELSE Returned("get_student_courses", <<student_id>>,
                 [i \in 1..Len(found) |->
                     LET course == Get(courses, found[i].course_code)
                     IN  [course_code |-> course.course_code,
                          course_name |-> course.course_name,
                          semester |-> found[i].semester,
                          grade |-> found[i].grade,
                          score |-> found[i].score]])

\* next((e for e in self.enrollments[student_id] if e['course_code'] == course_code), None):
\* the position of the first record of the course, 0 for None
first_enrollment(student_id, course_code) ==
    LET records == GetOr(enrollments, student_id, <<>>)
        hits == {i \in 1..Len(records) : records[i].course_code = course_code}
    IN  IF hits = {} THEN 0 ELSE CHOOSE i \in hits : \A j \in hits : i <= j

\* the rows of get_course_students before sorting
course_rows(course_code) ==
    LET student_ids == GetOr(course_enrollments, course_code, <<>>)
    IN  [i \in 1..Len(student_ids) |->
            LET student_id == student_ids[i]
                student == Get(students, student_id)
                at == first_enrollment(student_id, course_code)
                records == GetOr(enrollments, student_id, <<>>)
            IN  [student_id |-> student_id,
                 first_name |-> student.first_name,
                 last_name |-> student.last_name,
                 grade |-> IF at = 0 THEN None ELSE records[at].grade,
                 score |-> IF at = 0 THEN None ELSE records[at].score]]

\* self.enrollments is a defaultdict: self.enrollments[student_id] files an
\* empty list under a student_id it does not hold
RECURSIVE enrollments_read(_, _)
enrollments_read_reset(d, student_ids) ==
    IF student_ids = <<>> THEN d ELSE Put(d, student_ids[1], <<>>)
enrollments_read(d, student_ids) ==
    IF student_ids = <<>> THEN d
    ELSE enrollments_read(IF Has(d, student_ids[1]) THEN d ELSE Put(d, student_ids[1], <<>>),
                          Tail(student_ids))

get_course_students(course_code) ==
    LET student_ids == GetOr(course_enrollments, course_code, <<>>)
    IN  IF \E i \in 1..Len(student_ids) : ~Has(students, student_ids[i])
        THEN Raised("get_course_students", <<course_code>>, "KeyError")
        ELSE IF unorderable(course_rows(course_code))
        THEN Raised("get_course_students", <<course_code>>, "TypeError")
        ELSE Returned("get_course_students", <<course_code>>,
                      sorted_by_score(course_rows(course_code)))

do_get_student_courses(student_id) ==
    /\ ret' = get_student_courses(student_id)
    /\ UNCHANGED <<dataVars, textVars>>

do_get_course_students(course_code) ==
    /\ ret' = get_course_students(course_code)
    /\ enrollments' = enrollments_read(enrollments, GetOr(course_enrollments, course_code, <<>>))
    /\ UNCHANGED <<studentVars, courseVars, course_enrollments, textVars>>

\* number of enrollment records held
EnrollmentCount == SumSeq([i \in 1..Len(enrollments) |-> Len(enrollments[i].v)])

MaxEnrollments == 2

\* datetime.now().isoformat() during the run: "2024-09-01T08:00:00"
NOW == Str(<<50, 48, 50, 52, 45, 48, 57, 45, 48, 49, 84, 48, 56, 58, 48, 48, 58, 48, 48>>)
\* course codes "M" and "E", names "Alg" and "Eng", department "Math"
CODE_M == Str(<<77>>)
CODE_E == Str(<<69>>)
MATH == Str(<<77, 97, 116, 104>>)
\* (course_code, course_name, credits, department)
CourseInputs == {<<CODE_M, Str(<<65, 108, 103>>), Num(4), MATH>>,
                 <<CODE_E, Str(<<69, 110, 103>>), Num(3), None>>}
EnrollIds == {ID_A, ID_B}
\* (semester, grade, score): "F24" graded "A" with 90, "S25" not yet graded
EnrollTerms == {<<Str(<<70, 50, 52>>), Str(<<65>>), Num(90)>>, <<Str(<<83, 50, 53>>), None, None>>}

AddEnrollee ==
    \E student_id \in EnrollIds :
        add_student(student_id, FIRST, LEE, None, None, None, None, None, TODAY)

AddCourse == \E c \in CourseInputs : add_course(c[1], c[2], c[3], c[4])

Enroll ==
    \E student_id \in EnrollIds, c \in CourseInputs, term \in EnrollTerms :
        /\ EnrollmentCount < MaxEnrollments \/ ~Has(students, student_id) \/ ~Has(courses, c[1])
        /\ enroll_student(student_id, c[1], term[1], term[2], term[3], NOW)

StudentCourses == \E student_id \in EnrollIds : do_get_student_courses(student_id)

CourseStudents == \E c \in CourseInputs : do_get_course_students(c[1])

NextEnroll == AddEnrollee \/ AddCourse \/ Enroll \/ StudentCourses \/ CourseStudents

SpecEnroll == Init /\ [][NextEnroll]_vars

\* C20: enroll_student returns False and leaves enrollments and
\* course_enrollments alone when the student or the course is unknown;
\* otherwise it returns True, appends one enrollment record to
\* enrollments[student_id] and one occurrence of student_id to
\* course_enrollments[course_code], and touches no other entry.
C20_EnrollChecksBothKeys ==
    [][ret'.op = "enroll_student" =>
          IF ~Has(students, ret'.args[1]) \/ ~Has(courses, ret'.args[2])
          THEN /\ ret'.status = "return" /\ ret'.val = FALSE
               /\ UNCHANGED enrollVars
          ELSE /\ ret'.status = "return" /\ ret'.val = TRUE
               /\ Keys(enrollments') = Keys(enrollments) \cup {ret'.args[1]}
               /\ Keys(course_enrollments') = Keys(course_enrollments) \cup {ret'.args[2]}
               /\ \A k \in Keys(enrollments') :
                      LET old == GetOr(enrollments, k, <<>>)
                          new == Get(enrollments', k)
                      IN  IF k # ret'.args[1] THEN new = old
                          ELSE /\ Len(new) = Len(old) + 1
                               /\ SubSeq(new, 1, Len(old)) = old
                               /\ new[Len(new)].student_id = ret'.args[1]
                               /\ new[Len(new)].course_code = ret'.args[2]
                               /\ new[Len(new)].semester = ret'.args[3]
                               /\ new[Len(new)].grade = ret'.args[4]
                               /\ new[Len(new)].score = ret'.args[5]
               /\ \A k \in Keys(course_enrollments') :
                      Get(course_enrollments', k) =
                          IF k # ret'.args[2] THEN GetOr(course_enrollments, k, <<>>)
                          ELSE Append(GetOr(course_enrollments, k, <<>>), ret'.args[1])]_vars

\* the same student was just enrolled a second time in the same course
C20_Witness ==
    /\ ret.op = "enroll_student"
    /\ ret.status = "return"
    /\ ret.val = TRUE
    /\ Len(Get(course_enrollments, ret.args[2])) = 2
    /\ Get(course_enrollments, ret.args[2])[1] = Get(course_enrollments, ret.args[2])[2]
    /\ Len(Get(enrollments, ret.args[1])) = 2

\* an enrollment was just refused because the course does not exist
C20_WitnessRefused ==
    /\ ret.op = "enroll_student"
    /\ ret.status = "return"
    /\ ret.val = FALSE
    /\ Has(students, ret.args[1])
    /\ ~Has(courses, ret.args[2])

\* the enrollment records of a course that carry this student, grade and score
RecordsLike(course_code, student_id, grade, score) ==
    SumSeq([k \in 1..Len(enrollments) |->
               Cardinality({i \in 1..Len(enrollments[k].v) :
                               /\ enrollments[k].v[i].course_code = course_code
                               /\ enrollments[k].v[i].student_id = student_id
                               /\ enrollments[k].v[i].grade = grade
                               /\ enrollments[k].v[i].score = score})])

RowsLike(rows, student_id, grade, score) ==
    Cardinality({i \in 1..Len(rows) : /\ rows[i].student_id = student_id
                                      /\ rows[i].grade = grade
                                      /\ rows[i].score = score})

\* C21: get_course_students(course_code) returns one row per enrollment
\* record of the course, each row carrying the grade and score of its own
\* record: for every student, grade and score there are as many rows as
\* records, also when a student is enrolled in the course twice.
C21_RowPerEnrollment ==
    (ret.op = "get_course_students")
    => /\ ret.status = "return"
       /\ \A student_id \in EnrollIds, term \in EnrollTerms :
              RowsLike(ret.val, student_id, term[2], term[3]) =
                  RecordsLike(ret.args[1], student_id, term[2], term[3])
       /\ Len(ret.val) = SumSeq([k \in 1..Len(enrollments) |->
                                    Cardinality({i \in 1..Len(enrollments[k].v) :
                                        enrollments[k].v[i].course_code = ret.args[1]})])

\* the number of times an identifier is filed in a default-dict index
Filed(index, student_id) ==
    SumSeq([k \in 1..Len(index) |->
               Cardinality({i \in 1..Len(index[k].v) : index[k].v[i] = student_id})])

\* C22: the secondary indexes hold nothing beyond the primary collection:
\* every identifier in index_by_last_name, index_by_grade, index_by_gpa or
\* index_by_email is a key of students, is held at most once by each index,
\* and is filed under that student's own lower-cased last_name, grade_level,
\* gpa and email.
C22_IndexesWithinStudents ==
    /\ \A k \in 1..Len(index_by_last_name) : \A i \in 1..Len(index_by_last_name[k].v) :
           LET sid == index_by_last_name[k].v[i]
           IN  /\ Has(students, sid)
               /\ Get(students, sid).last_name.t = "str"
               /\ Str(Lower(Get(students, sid).last_name.s)) = index_by_last_name[k].k
               /\ Filed(index_by_last_name, sid) = 1
    /\ \A k \in 1..Len(index_by_grade) : \A i \in 1..Len(index_by_grade[k].v) :
           LET sid == index_by_grade[k].v[i]
           IN  /\ Has(students, sid)
               /\ Get(students, sid).grade_level = index_by_grade[k].k
               /\ Filed(index_by_grade, sid) = 1
    /\ \A i \in 1..Len(index_by_gpa) :
           /\ Has(students, index_by_gpa[i][2])
           /\ Get(students, index_by_gpa[i][2]).gpa = index_by_gpa[i][1]
           /\ \A j \in 1..Len(index_by_gpa) : index_by_gpa[j][2] = index_by_gpa[i][2] => j = i
    /\ \A k \in 1..Len(index_by_email) :
           /\ Has(students, index_by_email[k].v)
           /\ Get(students, index_by_email[k].v).email = index_by_email[k].k
           /\ \A j \in 1..Len(index_by_email) : index_by_email[j].v = index_by_email[k].v => j = k

\* two students are stored and every one of the four indexes holds an identifier
C22_Witness ==
    /\ Len(students) = 2
    /\ index_by_last_name # <<>>
    /\ index_by_grade # <<>>
    /\ index_by_gpa # <<>>
    /\ index_by_email # <<>>

----------------------------------------------------------------------------
(* StudentIndexer email lookup *)

\* self.students.get(student_id) if student_id else None
search_by_email(email) ==
    LET student_id == GetOr(index_by_email, email, None)
    IN  IF Truthy(student_id) THEN GetOr(students, student_id, None) ELSE None

do_search_by_email(email) ==
    /\ ret' = Returned("search_by_email", <<email>>, search_by_email(email))
    /\ UNCHANGED <<dataVars, textVars>>

MaxEmailStudents == 3

EmailQueries == {EMAIL_X, EMPTY}
\* (email, gpa) pairs of the students added
EmailGpas == {<<EMAIL_X, Num(350)>>, <<EMAIL_X, None>>, <<None, Num(350)>>}

AddEmailed ==
    \E student_id \in Ids, eg \in EmailGpas :
        /\ Admissible(MaxEmailStudents, student_id, eg[1])
        /\ add_student(student_id, FIRST, LEE, eg[1], None, None, None, eg[2], TODAY)

LookupEmail == \E email \in EmailQueries : do_search_by_email(email)

NextEmail == AddEmailed \/ LookupEmail

SpecEmail == Init /\ [][NextEmail]_vars

\* C23: no two students share the same non-empty email, and index_by_email
\* maps each registered email to the one student whose record holds it.
C23_EmailsUnique ==
    /\ \A i, j \in 1..Len(students) :
           (Truthy(students[i].v.email) /\ students[i].v.email = students[j].v.email) => i = j
    /\ \A k \in 1..Len(index_by_email) :
           /\ Has(students, index_by_email[k].v)
           /\ Get(students, index_by_email[k].v).email = index_by_email[k].k

\* the occurrences of a student in the roster of a course
Occurrences(course_code, student_id) ==
    LET roster == GetOr(course_enrollments, course_code, <<>>)
    IN  Cardinality({i \in 1..Len(roster) : roster[i] = student_id})

\* the enrollment records of a student that name a course
RecordsOf(student_id, course_code) ==
    LET records == GetOr(enrollments, student_id, <<>>)
    IN  Cardinality({i \in 1..Len(records) : records[i].course_code = course_code})

EnrolledIds ==
    Keys(enrollments) \cup UNION {Elems(course_enrollments[k].v) : k \in 1..Len(course_enrollments)}

EnrolledCodes ==
    Keys(course_enrollments)
        \cup UNION {{enrollments[k].v[i].course_code : i \in 1..Len(enrollments[k].v)} :
                       k \in 1..Len(enrollments)}

\* C24: the two relationship structures agree and reference only existing
\* records: a student occurs in course_enrollments[c] as many times as
\* enrollments[s] holds records of course c, every such s is a key of
\* students and every such c is a key of courses.
C24_EnrollmentsAgree ==
    /\ \A student_id \in EnrolledIds : Has(students, student_id)
    /\ \A course_code \in EnrolledCodes : Has(courses, course_code)
    /\ \A student_id \in EnrolledIds \cup EnrollIds, course_code \in EnrolledCodes \cup {CODE_M, CODE_E} :
           Occurrences(course_code, student_id) = RecordsOf(student_id, course_code)

\* one student holds two records of one course and another course has a roster too
C24_Witness ==
    \E student_id \in EnrolledIds, course_code \in EnrolledCodes :
        /\ RecordsOf(student_id, course_code) = 2
        /\ Len(students) = 2
        /\ Len(courses) = 2

\* re.findall(r'\b\w+\b', self.original_text.lower()) of a TextIndex
StoredTokens(o) == find_words(Lower(original_text[o].s))

\* C25: after any sequence of build_index calls on a TextIndex every stored
\* position is valid against the stored text: for every word w and every p in
\* word_positions[w], token p of the lower-cased tokenization of original_text
\* is w.
C25_PositionsMatchText ==
    \A o \in TextObjects : \A k \in 1..Len(word_positions[o]) :
        \A i \in 1..Len(word_positions[o][k].v) :
            LET p == word_positions[o][k].v[i]
            IN  /\ p < Len(StoredTokens(o))
                /\ Str(StoredTokens(o)[p + 1]) = word_positions[o][k].k

\* C26: in every reachable state of a TextIndex word_counts[w] equals the
\* length of word_positions[w] for every word w, and a word is a key of one
\* exactly when it is a key of the other.
C26_CountsMatchPositions ==
    \A o \in TextObjects :
        /\ Keys(word_counts[o]) = Keys(word_positions[o])
        /\ \A w \in Keys(word_positions[o]) :
               Get(word_counts[o], w) = Len(Get(word_positions[o], w))

\* a word indexed twice over two build_index calls was just looked up
C26_Witness ==
    /\ ret.op \in {"search", "get_context", "get_most_common"}
    /\ \E w \in Keys(word_positions[ret.args[1]]) :
           /\ Get(word_counts[ret.args[1]], w) = 2
           /\ Len(Get(word_positions[ret.args[1]], w)) = 2
    /\ Len(word_positions[ret.args[1]]) = 2

\* the 0-based indices at which a word occurs in a token sequence
OccurrencesIn(tokens, w) == {p \in 0..(Len(tokens) - 1) : Str(tokens[p + 1]) = w}

StrictlyIncreasing(list) == \A i, j \in 1..Len(list) : i < j => list[i] < list[j]

\* the search terms in both letter cases: "a", "A", "b", "B", "zz"
CaseTerms == Terms \cup {Str(<<65>>), Str(<<98>>)}

\* C27: after one build_index(text) on a fresh TextIndex, word_positions[w]
\* is the strictly increasing list of the token indices at which w occurs in
\* the lower-cased token sequence of text, the lists together cover every
\* index 0..n-1 exactly once, and search(term) returns the list of the
\* lower-cased term in any letter case.
C27_FreshBuildIndexesTokens ==
    [][\A o \in TextObjects, text \in Texts :
          (/\ ret'.op = "build_index" /\ ret'.args = <<o, text>>
           /\ word_positions[o] = <<>> /\ word_counts[o] = <<>>)
          => LET tokens == find_words(Lower(text.s))
             IN  /\ \A k \in 1..Len(word_positions'[o]) :
                        /\ StrictlyIncreasing(word_positions'[o][k].v)
                        /\ Elems(word_positions'[o][k].v) =
                               OccurrencesIn(tokens, word_positions'[o][k].k)
                        /\ word_positions'[o][k].v # <<>>
                 /\ \A p \in 0..(Len(tokens) - 1) :
                        Cardinality({k \in 1..Len(word_positions'[o]) :
                                        p \in Elems(word_positions'[o][k].v)}) = 1
                 /\ \A term \in CaseTerms :
                        /\ Elems(search(o, term)') = OccurrencesIn(tokens, Str(Lower(term.s)))
                        /\ StrictlyIncreasing(search(o, term)')]_vars

\* "a b A" was just indexed by a TextIndex that had indexed nothing before
C27_Witness ==
    \E o \in TextObjects :
        /\ ret.op = "build_index"
        /\ ret.args = <<o, TEXT_ABA>>
        /\ word_positions[o] = << [k |-> Str(<<97>>), v |-> <<0, 2>>],
                                  [k |-> Str(<<98>>), v |-> <<1>>] >>
        /\ search(o, Str(<<66>>)) = <<1>>

----------------------------------------------------------------------------
(* StudentIndexer report and the query operations together *)

\* str(v) inside the f-string of the name, for the strings and None that names are here
format_value(v) == IF v.t = "str" THEN v.s ELSE <<78, 111, 110, 101>>

generate_report(student_id) ==
    LET student == search_by_id(student_id)
        found == get_student_courses(student_id)
        credits == [i \in 1..Len(found.val) |-> Get(courses, found.val[i].course_code).credits]
    IN  IF student = None THEN Returned("generate_report", <<student_id>>, None)
        ELSE IF found.status = "raise"
        THEN Raised("generate_report", <<student_id>>, found.val)
        ELSE IF \E i \in 1..Len(credits) : credits[i].t # "num"
        THEN \* sum() adds a credits value that is not a number
             Raised("generate_report", <<student_id>>, "TypeError")
        ELSE Returned("generate_report", <<student_id>>,
                 [student_info |->
                      [id |-> student.student_id,
                       name |-> Str(format_value(student.first_name) \o SPACE
                                       \o format_value(student.last_name)),
                       email |-> student.email,
                       phone |-> student.phone,
                       grade_level |-> student.grade_level,
                       gpa |-> student.gpa,
                       enrollment_date |-> student.enrollment_date,
                       status |-> student.status],
                  courses |-> found.val,
                  total_courses |-> Len(found.val),
                  total_credits |-> SumSeq([i \in 1..Len(credits) |-> credits[i].n])])

do_generate_report(student_id) ==
    /\ ret' = generate_report(student_id)
    /\ UNCHANGED <<dataVars, textVars>>

\* (student_id, email, grade_level, gpa) of the students added
QueryStudents == {<<ID_A, EMAIL_X, Num(10), Num(350)>>, <<ID_B, None, None, Num(370)>>}
\* student_id arguments: a student that may be stored, one that never is
QueryIds == {ID_A, ID_C}
\* last_name and name_part arguments: "lee", "zz"
QueryNames == {Str(<<108, 101, 101>>), Str(<<122, 122>>)}
\* course_code arguments: a course that may be stored, one that never is
QueryCodes == {CODE_M, Str(<<90>>)}

AddQueried ==
    \E q \in QueryStudents :
        add_student(q[1], FIRST, LEE, q[2], PHONE, None, q[3], q[4], TODAY)

QueryId == \E student_id \in QueryIds : do_search_by_id(student_id)
QueryName == \E last_name \in QueryNames : do_search_by_name(last_name)
QueryPartialName == \E name_part \in QueryNames : do_search_by_partial_name(name_part)
QueryEmail == \E email \in EmailQueries : do_search_by_email(email)
QueryGrade == \E grade_level \in GradeQueries : do_search_by_grade_level(grade_level)
QueryGpaRange == do_search_by_gpa_range(Num(340), Num(360))
QueryTopStudents == do_get_top_students(1)
QueryStudentCourses == \E student_id \in QueryIds : do_get_student_courses(student_id)
QueryCourseStudents == \E course_code \in QueryCodes : do_get_course_students(course_code)
QueryReport == \E student_id \in QueryIds : do_generate_report(student_id)

NextQuery ==
    \/ AddQueried
    \/ AddCourse
    \/ Enroll
    \/ QueryId
    \/ QueryName
    \/ QueryPartialName
    \/ QueryEmail
    \/ QueryGrade
    \/ QueryGpaRange
    \/ QueryTopStudents
    \/ QueryStudentCourses
    \/ QueryCourseStudents
    \/ QueryStatistics
    \/ QueryReport

SpecQuery == Init /\ [][NextQuery]_vars

QueryOps == {"search_by_id", "search_by_name", "search_by_partial_name", "search_by_email",
             "search_by_grade_level", "search_by_gpa_range", "get_top_students",
             "get_student_courses", "get_course_students", "get_statistics",
             "generate_report"}

\* C28: every query operation of StudentIndexer is read-only: it leaves
\* students, courses, enrollments, course_enrollments and all indexes as they
\* were, the key sets of the default-dict indexes included.
C28_QueriesReadOnly ==
    [][ret'.op \in QueryOps => UNCHANGED dataVars]_vars

\* get_course_students has just returned the rows of a course with a roster,
\* with students filed in every index
C28_Witness ==
    /\ ret.op = "get_course_students"
    /\ ret.status = "return"
    /\ ret.val # <<>>
    /\ Len(students) = 2
    /\ Len(enrollments) = 2

----------------------------------------------------------------------------
(* StudentIndexer course catalogue *)

MaxCourses == 2

\* course code "P", departments "MATH" and 7
CODE_P == Str(<<80>>)
MATH_UPPER == Str(<<77, 65, 84, 72>>)
\* (course_code, course_name, credits, department): two departments that
\* differ in letter case only, no department, an empty one, one that is not
\* a string, and a second course under the code "M"
Catalogue == CourseInputs \cup
             {<<CODE_P, Str(<<80, 104, 121>>), Num(3), MATH_UPPER>>,
              <<CODE_P, Str(<<80, 104, 121>>), Num(3), EMPTY>>,
              <<CODE_E, Str(<<69, 110, 103>>), Num(3), Num(7)>>,
              <<CODE_M, Str(<<65, 108, 103>>), Num(3), None>>}

AddCatalogued ==
    \E c \in Catalogue :
        /\ Len(courses) < MaxCourses \/ Has(courses, c[1])
        /\ add_course(c[1], c[2], c[3], c[4])

NextCourse == AddCatalogued \/ QueryStatistics

SpecCourse == Init /\ [][NextCourse]_vars

\* C29: add_course with a course_code that already exists returns False and
\* leaves courses and index_by_department unchanged; an add_course that
\* succeeds stores the course and, when a department is given, appends the
\* course code once under the lower-cased department name and touches no
\* other department.
C29_AddCourse ==
    [][\A c \in Catalogue :
          (ret'.op = "add_course" /\ ret'.args = c)
          => IF Has(courses, c[1])
             THEN /\ ret'.status = "return" /\ ret'.val = FALSE
                  /\ UNCHANGED courseVars
             ELSE ret'.status = "return"
                  => /\ ret'.val = TRUE
                     /\ courses' = Append(courses,
                            [k |-> c[1],
                             v |-> [course_code |-> c[1], course_name |-> c[2],
                                    credits |-> c[3], department |-> c[4]]])
                     /\ IF ~Truthy(c[4]) THEN UNCHANGED index_by_department
                        ELSE LET key == Str(Lower(c[4].s))
                             IN  /\ Keys(index_by_department') = Keys(index_by_department) \cup {key}
                                 /\ \A k \in Keys(index_by_department') :
                                        Get(index_by_department', k) =
                                            IF k = key
                                            THEN Append(GetOr(index_by_department, k, <<>>), c[1])
                                            ELSE Get(index_by_department, k)]_vars

\* a course was just filed under "math" next to one added with another
\* letter case of the department
C29_Witness ==
    /\ ret.op = "add_course"
    /\ ret.status = "return"
    /\ ret.val = TRUE
    /\ Len(index_by_department) = 1
    /\ index_by_department[1].k = Str(<<109, 97, 116, 104>>)
    /\ Len(index_by_department[1].v) = 2

\* C30: search_by_gpa_range(lo, hi) with lo > hi returns an empty list in
\* every reachable index state, for any stored GPAs and identifiers.
C30_InvertedRangeEmpty ==
    (/\ ret.op = "search_by_gpa_range"
     /\ ret.args[1].n > ret.args[2].n)
    => (ret.status = "return" /\ ret.val = <<>>)

====
